---- MODULE Spec2Model ----
(***************************************************************************)
(* Raw video datasets of training/dataset/vos_raw_dataset.py.              *)
(*                                                                         *)
(* One dataset instance (of class `kind`) is built by its __init__ from    *)
(* the constructor arguments and from what the storage holds at that time  *)
(* (`args`); `self` holds the instance's fields.  get_video(idx) reads the *)
(* storage again, so what the storage holds at the time of the call is an  *)
(* input of the call.  `ret` is the outcome of the call in flight: the     *)
(* returned (video, segment_loader) pair or the exception raised, together *)
(* with the inputs the call read; the caller takes it before calling again.*)
(*                                                                         *)
(* File names, identifiers and paths are strings; the Python string        *)
(* functions used by the code are computed character by character.         *)
(***************************************************************************)
EXTENDS Integers, Sequences, FiniteSets, TLC

VARIABLES kind, args, self, ret

vars == <<kind, args, self, ret>>

\* Python's None, where a value is never compared with one of another type
None == "None"

\* an optional text file: no path given, or the lines of the file at the path
NoFile == <<>>
FileOf(lines) == <<lines>>
Lines(file) == file[1]

\* ------------------------------------------------------------------------
\* Bounds of the model
\* ------------------------------------------------------------------------

\* sample_rate and ann_every range over 1..MaxStride
MaxStride == 2
\* truncate_video ranges over -1..MaxTruncate
MaxTruncate == 3
\* a video directory or archive holds at most MaxImages images
MaxImages == 4
\* a subset or exclusion file has at most MaxLines lines
MaxLines == 2
\* a JSON annotation file has at most MaxAnnots per-frame records
MaxAnnots == 2
\* get_video is called with indices in -MaxIdx..MaxIdx and at the ends of the list
MaxIdx == 2

\* ------------------------------------------------------------------------
\* Python strings
\* ------------------------------------------------------------------------

Digits == "0123456789"
Lower == "abcdefghijklmnopqrstuvwxyz"

CharAt(s, i) == SubSeq(s, i, i)

CharsOf(s) == {CharAt(s, i) : i \in 1..Len(s)}

IndexIn(s, c) == CHOOSE i \in 1..Len(s) : CharAt(s, i) = c

\* ord(c) for the characters that occur in the model's names
Ord(c) ==
    CASE c = "\t" -> 9
      [] c = "\n" -> 10
      [] c = " " -> 32
      [] c = "-" -> 45
      [] c = "." -> 46
      [] c = "/" -> 47
      [] c \in CharsOf(Digits) -> 47 + IndexIn(Digits, c)
      [] c = "_" -> 95
      [] c \in CharsOf(Lower) -> 96 + IndexIn(Lower, c)

\* a < b for Python str: code point by code point, a proper prefix is smaller
RECURSIVE StrLess(_, _)
StrLess(a, b) ==
    IF b = "" THEN FALSE
    ELSE IF a = "" THEN TRUE
    ELSE IF Head(a) # Head(b) THEN Ord(Head(a)) < Ord(Head(b))
    ELSE StrLess(Tail(a), Tail(b))

\* str.rfind(c) + 1: the last position of c in s, 0 when absent
RFind(s, c) ==
    LET I == {i \in 1..Len(s) : CharAt(s, i) = c}
    IN  IF I = {} THEN 0 ELSE CHOOSE i \in I : \A j \in I : j <= i

Whitespace == {" ", "\t", "\n"}

\* str.strip()
RECURSIVE LStrip(_)
LStrip(s) == IF s # "" /\ Head(s) \in Whitespace THEN LStrip(Tail(s)) ELSE s

RECURSIVE RStrip(_)
RStrip(s) ==
    IF s # "" /\ CharAt(s, Len(s)) \in Whitespace
    THEN RStrip(SubSeq(s, 1, Len(s) - 1)) ELSE s

Strip(s) == RStrip(LStrip(s))

\* os.path.splitext(p)[0]: the extension starts at the last dot of the last
\* path component, unless only dots precede it in that component
Splitext(p) ==
    LET sepIndex == RFind(p, "/")
        dotIndex == RFind(p, ".")
    IN  IF dotIndex > sepIndex
           /\ \E k \in (sepIndex + 1)..(dotIndex - 1) : CharAt(p, k) # "."
        THEN SubSeq(p, 1, dotIndex - 1)
        ELSE p

\* os.path.join(a, b) for a relative b
Join(a, b) ==
    IF a = "" \/ CharAt(a, Len(a)) = "/" THEN a \o b ELSE a \o "/" \o b

\* str.rstrip("/")
RECURSIVE RStripSep(_)
RStripSep(s) ==
    IF s # "" /\ CharAt(s, Len(s)) = "/"
    THEN RStripSep(SubSeq(s, 1, Len(s) - 1)) ELSE s

\* os.path.dirname(p)
Dirname(p) ==
    LET head == SubSeq(p, 1, RFind(p, "/"))
    IN  IF head # "" /\ CharsOf(head) # {"/"} THEN RStripSep(head) ELSE head

\* s.endswith(suffix)
EndsWith(s, suffix) ==
    /\ Len(suffix) <= Len(s)
    /\ SubSeq(s, Len(s) - Len(suffix) + 1, Len(s)) = suffix

\* sub in s
Contains(s, sub) ==
    \E i \in 1..(Len(s) - Len(sub) + 1) : SubSeq(s, i, i + Len(sub) - 1) = sub

\* s[:-k]
DropLast(s, k) == SubSeq(s, 1, Len(s) - k)

\* s.split(c)[0] and s.split(c)[-1]
SplitFirst(s, c) ==
    LET I == {i \in 1..Len(s) : CharAt(s, i) = c}
    IN  IF I = {} THEN s
        ELSE SubSeq(s, 1, (CHOOSE i \in I : \A j \in I : i <= j) - 1)

SplitLast(s, c) == SubSeq(s, RFind(s, c) + 1, Len(s))

IsDecimal(s) == s # "" /\ CharsOf(s) \subseteq CharsOf(Digits)

\* int(s) for a string of decimal digits
RECURSIVE ParseInt(_)
ParseInt(s) ==
    IF s = "" THEN 0
    ELSE 10 * ParseInt(SubSeq(s, 1, Len(s) - 1))
         + (IndexIn(Digits, CharAt(s, Len(s))) - 1)

\* str(n) for n >= 0
RECURSIVE StrNat(_)
StrNat(n) ==
    IF n < 10 THEN CharAt(Digits, n + 1)
    ELSE StrNat(n \div 10) \o CharAt(Digits, (n % 10) + 1)

\* str(n)
Str(n) == IF n < 0 THEN "-" \o StrNat(-n) ELSE StrNat(n)

\* "%05d" % n for n >= 0: zero padded to at least 5 digits
RECURSIVE ZeroPad(_, _)
ZeroPad(s, width) == IF Len(s) >= width THEN s ELSE ZeroPad("0" \o s, width)

Format05d(n) == ZeroPad(StrNat(n), 5)

\* ------------------------------------------------------------------------
\* Python lists
\* ------------------------------------------------------------------------

InList(x, s) == \E i \in 1..Len(s) : s[i] = x

\* sorted(s) for a list of str (stable insertion)
RECURSIVE InsertSorted(_, _)
InsertSorted(x, s) ==
    IF s = <<>> THEN <<x>>
    ELSE IF StrLess(x, Head(s)) THEN <<x>> \o s
    ELSE <<Head(s)>> \o InsertSorted(x, Tail(s))

RECURSIVE Sorted(_)
Sorted(s) ==
    IF s = <<>> THEN <<>>
    ELSE InsertSorted(s[Len(s)], Sorted(SubSeq(s, 1, Len(s) - 1)))

\* os.listdir / glob.glob / os.walk give the entries in an order the file
\* system decides: some enumeration of the set
RECURSIVE ListDir(_)
ListDir(S) ==
    IF S = {} THEN <<>>
    ELSE LET x == CHOOSE x \in S : TRUE IN <<x>> \o ListDir(S \ {x})

\* s[:t]
Prefix(s, t) == SubSeq(s, 1, IF t < Len(s) THEN t ELSE Len(s))

\* s[::k] for k >= 1
Stride(s, k) == [j \in 1..((Len(s) + k - 1) \div k) |-> s[(j - 1) * k + 1]]

\* s[idx] is defined for -len(s) <= idx < len(s), else IndexError
IndexOK(s, idx) == -Len(s) <= idx /\ idx < Len(s)

\* s[idx] with a negative idx counted from the front of the list
IndexMirrored(s, idx) == IF idx >= 0 THEN s[idx + 1] ELSE s[-idx]

\* s[idx]: a negative idx counts from the end of the list
Index(s, idx) == IF idx >= 0 THEN s[idx + 1] ELSE s[Len(s) + idx + 1]

\* [f(x) for x in s]
Map(s, F(_)) == [i \in 1..Len(s) |-> F(s[i])]

\* the lines of a text file, as the code reads them:
\* [os.path.splitext(line.strip())[0] for line in f]
StemLines(f) == Map(f, LAMBDA line : Splitext(Strip(line)))

\* the indices get_video is called with, for a list of n identifiers
IdxChoices(n) == (-MaxIdx..MaxIdx) \cup {n - 1, n, -n, -n - 1}

\* ------------------------------------------------------------------------
\* Records
\* ------------------------------------------------------------------------

VOSFrame(frame_idx, image_path, data) ==
    [frame_idx |-> frame_idx, image_path |-> image_path, data |-> data,
     is_conditioning_only |-> FALSE]

VOSVideo(video_name, video_id, frames) ==
    [video_name |-> video_name, video_id |-> video_id, frames |-> frames]

\* no call is in flight
NoCall ==
    [idx |-> 0, read |-> None, status |-> "none", line |-> 0,
     video |-> None, segment_loader |-> None]

\* get_video(idx) returned (video, segment_loader) after reading `read`
Returned(idx, read, video, segment_loader) ==
    [idx |-> idx, read |-> read, status |-> "ok", line |-> 0,
     video |-> video, segment_loader |-> segment_loader]

\* get_video(idx) raised exception `exc` at source line `line`
Raised(idx, read, exc, line) ==
    [idx |-> idx, read |-> read, status |-> exc, line |-> line,
     video |-> None, segment_loader |-> None]

\* [video_name for video_name in subset if video_name not in excluded_files]
NotExcluded(subset, excluded_files) ==
    SelectSeq(subset, LAMBDA video_name : ~InList(video_name, excluded_files))

\* the text files of at most MaxLines lines over a pool of lines
TextFiles(pool) == {FileOf(f) : f \in UNION {[1..n -> pool] : n \in 0..MaxLines}}

\* ------------------------------------------------------------------------
\* PNGRawDataset
\* ------------------------------------------------------------------------

PNGSubset(a) ==
    IF a.file_list_txt # NoFile THEN StemLines(Lines(a.file_list_txt))
    ELSE ListDir(a.img_listing)

PNGExcludedFiles(a) ==
    IF a.excluded_videos_list_txt # NoFile
    THEN StemLines(Lines(a.excluded_videos_list_txt))
    ELSE <<>>

PNGVideoNames(a) == Sorted(NotExcluded(PNGSubset(a), PNGExcludedFiles(a)))

\* [os.path.join(video_name, obj) for video_name in names
\*                                for obj in os.listdir(gt_folder/video_name)]
RECURSIVE PNGObjectNames(_, _)
PNGObjectNames(names, gt_objs) ==
    IF names = <<>> THEN <<>>
    ELSE Map(ListDir(gt_objs[Head(names)]), LAMBDA obj : Join(Head(names), obj))
         \o PNGObjectNames(Tail(names), gt_objs)

\* video_names_mult: each name once per entry of its image directory
RECURSIVE PNGNamesMult(_, _)
PNGNamesMult(names, img_count) ==
    IF names = <<>> THEN <<>>
    ELSE [i \in 1..img_count[Head(names)] |-> Head(names)]
         \o PNGNamesMult(Tail(names), img_count)

PNGNamesAfterObjects(a) ==
    IF a.single_object_mode
    THEN Sorted(PNGObjectNames(PNGVideoNames(a), a.gt_objs))
    ELSE PNGVideoNames(a)

\* os.listdir raises FileNotFoundError for a directory the storage lacks:
\* the constructor then builds no instance
PNGInitOK(a) ==
    /\ a.single_object_mode =>
          \A i \in 1..Len(PNGVideoNames(a)) :
              PNGVideoNames(a)[i] \in DOMAIN a.gt_objs
    /\ a.frames_sampling_mult =>
          \A i \in 1..Len(PNGNamesAfterObjects(a)) :
              PNGNamesAfterObjects(a)[i] \in DOMAIN a.img_count

PNGInit(a) ==
    [img_folder |-> a.img_folder,
     gt_folder |-> a.gt_folder,
     sample_rate |-> a.sample_rate,
     is_palette |-> a.is_palette,
     single_object_mode |-> a.single_object_mode,
     truncate_video |-> a.truncate_video,
     video_names |->
        IF a.frames_sampling_mult
        THEN PNGNamesMult(PNGNamesAfterObjects(a), a.img_count)
        ELSE PNGNamesAfterObjects(a)]

\* glob.glob(os.path.join(root, "*.jpg")): the entries of root that end in
\* .jpg and do not start with a dot, as paths (none when root is missing)
GlobJpg(root, files) ==
    ListDir({Join(root, f) : f \in {g \in files : EndsWith(g, ".jpg") /\ Head(g) # "."}})

PNGFrameRoot(s, video_name) ==
    IF s.single_object_mode
    THEN Join(s.img_folder, Dirname(video_name))
    ELSE Join(s.img_folder, video_name)

PNGSegmentLoader(s, video_name) ==
    IF s.is_palette
    THEN [class |-> "PalettisedPNGSegmentLoader",
          video_png_root |-> Join(s.gt_folder, video_name),
          sample_rate |-> s.sample_rate]
    ELSE [class |-> "MultiplePNGSegmentLoader",
          video_png_root |-> Join(s.gt_folder, video_name),
          single_object_mode |-> s.single_object_mode]

PNGAllFrames(s, video_name, files) ==
    LET all_frames == Sorted(GlobJpg(PNGFrameRoot(s, video_name), files))
    IN  IF s.truncate_video > 0 THEN Prefix(all_frames, s.truncate_video)
        ELSE all_frames

\* os.path.basename(p)
Basename(p) == SubSeq(p, RFind(p, "/") + 1, Len(p))

\* the frames with fid = int(os.path.basename(fpath).split(".")[0])
PNGFramesFilenameIdx(s, all_frames) ==
    LET selected == Stride(all_frames, s.sample_rate)
    IN  [j \in 1..Len(selected) |->
            VOSFrame(ParseInt(SplitFirst(Basename(selected[j]), ".")), selected[j], None)]

\* frames of the loop over enumerate(all_frames[::sample_rate]): fid = idx
PNGFrames(s, all_frames) ==
    LET selected == Stride(all_frames, s.sample_rate)
    IN  [j \in 1..Len(selected) |-> VOSFrame(j - 1, selected[j], None)]

\* the value of idx when the video is built: the loop variable of the
\* enumerate loop has the same name as the parameter and overwrites it
PNGIdxAfterLoop(idx, frames) ==
    IF Len(frames) > 0 THEN Len(frames) - 1 ELSE idx

PNGGetVideoRet(s, idx, files) ==
    LET video_name == Index(s.video_names, idx)
        frames == PNGFrames(s, PNGAllFrames(s, video_name, files))
    IN  Returned(idx, files,
                 VOSVideo(video_name, PNGIdxAfterLoop(idx, frames), frames),
                 PNGSegmentLoader(s, video_name))

\* image directories as the storage may hold them at the time of a call:
\* the first n frames of a video, with or without a file that is no .jpg
JpgNames(n) == {Format05d(i) \o ".jpg" : i \in 0..(n - 1)}

PNGFrameDirs ==
    {JpgNames(n) \cup extra : n \in 0..MaxImages, extra \in {{}, {"m.png"}}}

PNGGetVideo ==
    /\ kind = "PNG"
    /\ ret.status = "none"
    /\ \E idx \in IdxChoices(Len(self.video_names)) :
          IF ~IndexOK(self.video_names, idx)
          THEN ret' = Raised(idx, None, "IndexError", 129)
          ELSE \E files \in PNGFrameDirs :
                  ret' = PNGGetVideoRet(self, idx, files)
    /\ UNCHANGED <<kind, args, self>>

\* storage layouts read by the constructor: the object directories under
\* gt_folder/<video>, and the number of entries of img_folder/<video>
PNGGtLayouts == {("a" :> {"o1", "o2"}) @@ ("b" :> {}), ("a" :> {"o1"})}

PNGCountLayouts == {("a" :> 2) @@ ("b" :> 0), ("a" :> 1) @@ ("b" :> 3)}

PNGArgs(listings, subsetFiles, excludedFiles, rates, truncates, palettes, flags) ==
    {a \in [img_folder : {"img"}, gt_folder : {"gt"},
            img_listing : listings,
            file_list_txt : subsetFiles \cup {NoFile},
            excluded_videos_list_txt : excludedFiles \cup {NoFile},
            sample_rate : rates, is_palette : palettes,
            single_object_mode : flags, truncate_video : truncates,
            frames_sampling_mult : flags,
            gt_objs : PNGGtLayouts \cup {<<>>},
            img_count : PNGCountLayouts \cup {<<>>}] :
        \* what the constructor does not read is left out
        /\ a.file_list_txt # NoFile => a.img_listing = {}
        /\ a.single_object_mode <=> a.gt_objs # <<>>
        /\ a.frames_sampling_mult <=> a.img_count # <<>>
        /\ PNGInitOK(a)}

\* ------------------------------------------------------------------------
\* NPZRawDataset
\* ------------------------------------------------------------------------

\* the .npz files found by os.walk(folder), as paths relative to folder
\* with the extension removed
NPZWalk(a) ==
    Map(ListDir({f \in a.walk : EndsWith(f, ".npz")}), Splitext)

\* [line.strip() for line in f if line.strip() in subset]
NPZSubset(a) ==
    IF a.file_list_txt # NoFile
    THEN SelectSeq(Map(Lines(a.file_list_txt), Strip),
                   LAMBDA line : InList(line, NPZWalk(a)))
    ELSE NPZWalk(a)

NPZExcludedFiles(a) ==
    IF a.excluded_videos_list_txt # NoFile
    THEN StemLines(Lines(a.excluded_videos_list_txt))
    ELSE <<>>

NPZVideoNames(a) == Sorted(NotExcluded(NPZSubset(a), NPZExcludedFiles(a)))

NPZInit(a) ==
    [folder |-> a.folder,
     sample_rate |-> a.sample_rate,
     truncate_video |-> a.truncate_video,
     video_names |-> NPZVideoNames(a)]

\* an archive as np.load gives it: imgs[k] and gts[k] stand for the k-th
\* image and the k-th mask of the archive, k counted from 0
NPZArchive(n, m) ==
    [imgs |-> [k \in 1..n |-> k - 1], gts |-> [k \in 1..m |-> k - 1]]

\* frames = np.repeat((imgs / 255.0)[:, np.newaxis], 3, axis=1), truncated
NPZImages(s, npz_data) ==
    LET frames == [k \in 1..Len(npz_data.imgs) |->
                      [img |-> npz_data.imgs[k], divided_by |-> 255, channels |-> 3]]
    IN  IF s.truncate_video > 0 THEN Prefix(frames, s.truncate_video) ELSE frames

\* the masks without the truncation
NPZMasksUntruncated(s, npz_data) == npz_data.gts

\* masks = npz_data['gts'], truncated
NPZTruncatedMasks(s, npz_data) ==
    IF s.truncate_video > 0 THEN Prefix(npz_data.gts, s.truncate_video)
    ELSE npz_data.gts

\* vos_frames of the loop over enumerate(frames[::sample_rate])
NPZFrames(s, frames) ==
    LET selected == Stride(frames, s.sample_rate)
    IN  [i \in 1..Len(selected) |->
            VOSFrame((i - 1) * s.sample_rate, None, selected[i])]

\* NPZSegmentLoader(masks[::self.sample_rate])
NPZSegmentLoader(s, masks) ==
    [class |-> "NPZSegmentLoader", masks |-> Stride(masks, s.sample_rate)]

NPZGetVideoRet(s, idx, npz_data) ==
    LET video_name == Index(s.video_names, idx)
        npz_path == Join(s.folder, video_name \o ".npz")
    IN  Returned(idx, [path |-> npz_path, data |-> npz_data],
                 VOSVideo(video_name, idx, NPZFrames(s, NPZImages(s, npz_data))),
                 NPZSegmentLoader(s, NPZTruncatedMasks(s, npz_data)))

NPZArchives == {NPZArchive(n, m) : n \in 0..MaxImages, m \in 0..MaxImages}

NPZGetVideo ==
    /\ kind = "NPZ"
    /\ ret.status = "none"
    /\ \E idx \in IdxChoices(Len(self.video_names)) :
          IF ~IndexOK(self.video_names, idx)
          THEN ret' = Raised(idx, None, "IndexError", 204)
          ELSE \E npz_data \in NPZArchives :
                  ret' = NPZGetVideoRet(self, idx, npz_data)
    /\ UNCHANGED <<kind, args, self>>

NPZArgs(walks, subsetFiles, excludedFiles, rates, truncates) ==
    [folder : {"npz"}, walk : walks,
     file_list_txt : subsetFiles \cup {NoFile},
     excluded_videos_list_txt : excludedFiles \cup {NoFile},
     sample_rate : rates, truncate_video : truncates]

\* ------------------------------------------------------------------------
\* SA1BRawDataset
\* ------------------------------------------------------------------------

\* [path.split(".")[0] for path in os.listdir(img_folder) if path.endswith(".jpg")]
SA1BSubset(a) ==
    IF a.file_list_txt # NoFile THEN StemLines(Lines(a.file_list_txt))
    ELSE Map(SelectSeq(a.img_listing, LAMBDA path : EndsWith(path, ".jpg")),
             LAMBDA path : SplitFirst(path, "."))

SA1BExcludedFiles(a) ==
    IF a.excluded_videos_list_txt # NoFile
    THEN StemLines(Lines(a.excluded_videos_list_txt))
    ELSE <<>>

SA1BInit(a) ==
    [img_folder |-> a.img_folder,
     gt_folder |-> a.gt_folder,
     num_frames |-> a.num_frames,
     mask_area_frac_thresh |-> a.mask_area_frac_thresh,
     uncertain_iou |-> a.uncertain_iou,
     video_names |-> NotExcluded(SA1BSubset(a), SA1BExcludedFiles(a))]

SA1BSegmentLoader(s, video_name) ==
    [class |-> "SA1BSegmentLoader",
     video_mask_path |-> Join(s.gt_folder, video_name \o ".json"),
     mask_area_frac_thresh |-> s.mask_area_frac_thresh,
     video_frame_path |-> Join(s.img_folder, video_name \o ".jpg"),
     uncertain_iou |-> s.uncertain_iou]

SA1BFrames(s, video_name) ==
    [i \in 1..s.num_frames |->
        VOSFrame(i - 1, Join(s.img_folder, video_name \o ".jpg"), None)]

\* int(video_name.split("_")[-1]) raises ValueError unless the piece after
\* the last underscore is a number
SA1BGetVideoRet(s, idx) ==
    LET video_name == Index(s.video_names, idx)
        image_id == SplitLast(video_name, "_")
    IN  IF ~IsDecimal(image_id) THEN Raised(idx, None, "ValueError", 297)
        ELSE Returned(idx, None,
                      VOSVideo(image_id, ParseInt(image_id), SA1BFrames(s, video_name)),
                      SA1BSegmentLoader(s, video_name))

SA1BGetVideo ==
    /\ kind = "SA1B"
    /\ ret.status = "none"
    /\ \E idx \in IdxChoices(Len(self.video_names)) :
          IF ~IndexOK(self.video_names, idx)
          THEN ret' = Raised(idx, None, "IndexError", 280)
          ELSE ret' = SA1BGetVideoRet(self, idx)
    /\ UNCHANGED <<kind, args, self>>

\* the listings os.listdir may give for a set of entries: every order
Orders(S) ==
    {f \in [1..Cardinality(S) -> S] : \A i, j \in 1..Cardinality(S) : i # j => f[i] # f[j]}

SA1BArgs(listings, subsetFiles, excludedFiles, frameCounts) ==
    {a \in [img_folder : {"img"}, gt_folder : {"gt"},
            img_listing : listings,
            file_list_txt : subsetFiles \cup {NoFile},
            excluded_videos_list_txt : excludedFiles \cup {NoFile},
            num_frames : frameCounts,
            mask_area_frac_thresh : {"1.1"}, uncertain_iou : {-1}] :
        a.file_list_txt # NoFile => a.img_listing = <<>>}

\* ------------------------------------------------------------------------
\* JSONRawDataset
\* ------------------------------------------------------------------------

\* excluded_videos_list_txt is None, a str (one path), a ListConfig (several
\* paths) or of another type, for which __init__ raises NotImplementedError
JSONInitOK(a) == a.excluded_videos_list_txt.type \in {"NoneType", "str", "ListConfig"}

\* the lines of the exclusion files, one file after the other
RECURSIVE JSONExcludedLines(_)
JSONExcludedLines(files) ==
    IF files = <<>> THEN <<>>
    ELSE StemLines(Head(files)) \o JSONExcludedLines(Tail(files))

\* excluded_files = set(excluded_files)
JSONExcludedFiles(a) ==
    LET lines == JSONExcludedLines(a.excluded_videos_list_txt.files)
    IN  {lines[i] : i \in 1..Len(lines)}

JSONSubset(a) ==
    IF a.file_list_txt # NoFile THEN StemLines(Lines(a.file_list_txt))
    ELSE ListDir(a.img_listing)

JSONVideoNames(a) ==
    Sorted(SelectSeq(JSONSubset(a),
                     LAMBDA video_name : video_name \notin JSONExcludedFiles(a)))

JSONInit(a) ==
    [gt_folder |-> a.gt_folder,
     img_folder |-> a.img_folder,
     sample_rate |-> a.sample_rate,
     rm_unannotated |-> a.rm_unannotated,
     ann_every |-> a.ann_every,
     frames_fps |-> a.frames_fps,
     video_names |-> JSONVideoNames(a)]

\* a per-frame annotation record of the JSON file: None, or a list with one
\* entry per object, an entry being None or a mask
NoAnnot == <<>>
Annot(objs) == <<objs>>
AnnotIsNone(annot) == annot = NoAnnot
AnnotObjs(annot) == annot[1]

\* the segment loader keeps the annotation stride it is given and exposes
\* the per-frame annotation records it loaded from the JSON file
JSONSegmentLoader(video_json_path, ann_every, frames_fps, frame_annots) ==
    [class |-> "JSONSegmentLoader",
     video_json_path |-> video_json_path,
     ann_every |-> ann_every,
     frames_fps |-> frames_fps,
     frame_annots |-> frame_annots]

\* every entry of the image directory parses as <int>.<ext>
JSONFrameNamesOK(files) == \A f \in files : IsDecimal(Splitext(f))

\* reversed(s)
Reverse(s) == [i \in 1..Len(s) |-> s[Len(s) - i + 1]]

\* the frame ids without sorted(): os.listdir gives the entries in an order
\* the file system decides, here the descending one
JSONFrameIdsListingOrder(files) ==
    Map(Reverse(Sorted(ListDir(files))), LAMBDA frame_name : ParseInt(Splitext(frame_name)))

\* [int(os.path.splitext(frame_name)[0]) for frame_name in sorted(os.listdir(..))]
JSONFrameIds(files) ==
    Map(Sorted(ListDir(files)), LAMBDA frame_name : ParseInt(Splitext(frame_name)))

\* frames for frame_id in frame_ids[::sample_rate]
JSONFrames(s, video_name, frame_ids) ==
    Map(Stride(frame_ids, s.sample_rate),
        LAMBDA frame_id :
            VOSFrame(frame_id,
                     Join(s.img_folder, video_name \o "/" \o Format05d(frame_id) \o ".jpg"),
                     None))

\* the valid frame ids without the test `None not in annot`
JSONValidFrameIdsAnyAnnot(segment_loader) ==
    {(i - 1) * segment_loader.ann_every :
        i \in {k \in 1..Len(segment_loader.frame_annots) :
                 ~AnnotIsNone(segment_loader.frame_annots[k])}}

\* [i * ann_every for i, annot in enumerate(frame_annots)
\*  if annot is not None and None not in annot]
JSONValidFrameIds(segment_loader) ==
    {(i - 1) * segment_loader.ann_every :
        i \in {k \in 1..Len(segment_loader.frame_annots) :
                 /\ ~AnnotIsNone(segment_loader.frame_annots[k])
                 /\ ~InList(None, AnnotObjs(segment_loader.frame_annots[k]))}}

\* frames = [f for f in frames if f.frame_idx in valid_frame_ids]
JSONAnnotatedFrames(frames, segment_loader) ==
    SelectSeq(frames, LAMBDA f : f.frame_idx \in JSONValidFrameIds(segment_loader))

JSONGetVideoRet(s, video_idx, files, frame_annots) ==
    LET video_name == Index(s.video_names, video_idx)
        segment_loader ==
            JSONSegmentLoader(Join(s.gt_folder, video_name \o "_manual.json"),
                              s.ann_every, s.frames_fps, frame_annots)
        frames == JSONFrames(s, video_name, JSONFrameIds(files))
        read == [files |-> files, frame_annots |-> frame_annots]
    IN  IF ~JSONFrameNamesOK(files) THEN Raised(video_idx, read, "ValueError", 368)
        ELSE Returned(video_idx, read,
                      VOSVideo(video_name, video_idx,
                               IF s.rm_unannotated
                               THEN JSONAnnotatedFrames(frames, segment_loader)
                               ELSE frames),
                      segment_loader)

\* image directories as the storage may hold them: frame files whose stems
\* have one or two digits, or a file whose stem is no number
JSONFrameDirs == SUBSET {"0.jpg", "2.jpg", "04.jpg", "10.jpg"} \cup {{"0.jpg", "n.txt"}}

\* annotation files as the storage may hold them
JSONAnnotFiles ==
    UNION {[1..n -> {NoAnnot, Annot(<<"mask", None>>), Annot(<<"mask">>)}] :
             n \in 0..MaxAnnots}

JSONGetVideo ==
    /\ kind = "JSON"
    /\ ret.status = "none"
    /\ \E video_idx \in IdxChoices(Len(self.video_names)) :
          IF ~IndexOK(self.video_names, video_idx)
          THEN ret' = Raised(video_idx, None, "IndexError", 359)
          ELSE \E files \in JSONFrameDirs, frame_annots \in JSONAnnotFiles :
                  ret' = JSONGetVideoRet(self, video_idx, files, frame_annots)
    /\ UNCHANGED <<kind, args, self>>

JSONExclusions(files) ==
    {[type |-> "NoneType", files |-> <<>>], [type |-> "int", files |-> <<>>]}
    \cup {[type |-> "str", files |-> <<Lines(f)>>] : f \in files}
    \cup {[type |-> "ListConfig", files |-> <<Lines(f), Lines(g)>>] : f, g \in files}

JSONArgs(listings, subsetFiles, excludedFiles, rates, flags) ==
    {a \in [img_folder : {"img"}, gt_folder : {"gt"},
            img_listing : listings,
            file_list_txt : subsetFiles \cup {NoFile},
            excluded_videos_list_txt : JSONExclusions(excludedFiles),
            sample_rate : rates, rm_unannotated : flags,
            ann_every : rates, frames_fps : {24}] :
        /\ a.file_list_txt # NoFile => a.img_listing = {}
        /\ JSONInitOK(a)}

\* ------------------------------------------------------------------------
\* BraTSRawDataset
\* ------------------------------------------------------------------------

\* the number of frames get_video builds
BraTSFrameCount == 160

\* [i for i in sorted(os.listdir(img_folder)) if i.endswith('.npy')]
BraTSVideoNames(a) ==
    SelectSeq(Sorted(ListDir(a.img_listing)), LAMBDA i : EndsWith(i, ".npy"))

BraTSInit(a) ==
    [folder_path |-> a.img_folder,
     gt_path |-> a.gt_folder,
     video_names |-> BraTSVideoNames(a),
     curr_vid |-> ""]

\* self after an assignment of the label name, video_name[:-8], to curr_vid
BraTSSetCurrVidLabel(s, video_name) == [s EXCEPT !.curr_vid = DropLast(video_name, 8)]

\* self after the assignment self.curr_vid = video_name
BraTSSetCurrVid(s, video_name) == [s EXCEPT !.curr_vid = video_name]

\* the files of gt_path that get_video may take as the label: those whose
\* name contains video_name[:-8] and ends in .npy; it takes the first one
\* of the listing, whose order the file system decides
BraTSLabels(video_name, gt_listing) ==
    {i \in gt_listing : Contains(i, DropLast(video_name, 8)) /\ EndsWith(i, ".npy")}

\* a stored volume of shape (channels, x, y, depth); renormalize raises
\* ValueError (np.min of an empty array) for a channel that is zero everywhere
BraTSVolume(channels, depth, blank) ==
    [channels |-> channels, depth |-> depth, blank |-> blank]

\* full_video[1:] permuted to (depth, channels - 1, x, y): frame_idx selects
\* one depth slice
BraTSFrames(volume) ==
    [i \in 1..BraTSFrameCount |->
        VOSFrame(i - 1, "null", [slice |-> i - 1, channels |-> volume.channels - 1])]

BraTSGetVideoRet(s, video_idx, volume, gt_listing, label) ==
    LET video_name == Index(s.video_names, video_idx)
        read == [path |-> Join(s.folder_path, video_name), volume |-> volume,
                 gt_listing |-> gt_listing]
    IN  IF volume.channels > 1 /\ volume.blank
        THEN Raised(video_idx, read, "ValueError", 429)
        ELSE IF BraTSLabels(video_name, gt_listing) = {}
        THEN Raised(video_idx, read, "IndexError", 434)
        ELSE IF volume.depth < BraTSFrameCount
        THEN Raised(video_idx, read, "IndexError", 445)
        ELSE Returned(video_idx, read,
                      VOSVideo(video_name, video_idx, BraTSFrames(volume)),
                      [class |-> "BraTSSegmentLoader",
                       mask_path |-> Join(s.gt_path, label)])

\* volumes and label folders as the storage may hold them
BraTSVolumes ==
    {BraTSVolume(c, d, b) :
        c \in {1, 5}, d \in {155, BraTSFrameCount, BraTSFrameCount + 1}, b \in BOOLEAN}

BraTSGtListings == SUBSET {"p1_seg.npy", "p12_seg.npy", "p1_seg.txt"}

BraTSGetVideo ==
    /\ kind = "BraTS"
    /\ ret.status = "none"
    /\ \E video_idx \in IdxChoices(Len(self.video_names)) :
          IF ~IndexOK(self.video_names, video_idx)
          THEN /\ ret' = Raised(video_idx, None, "IndexError", 419)
               /\ self' = self
          ELSE LET video_name == Index(self.video_names, video_idx)
               IN  /\ self' = BraTSSetCurrVid(self, video_name)
                   /\ \E volume \in BraTSVolumes, gt_listing \in BraTSGtListings :
                         \E label \in BraTSLabels(video_name, gt_listing) \cup {""} :
                            /\ label = "" <=> BraTSLabels(video_name, gt_listing) = {}
                            /\ ret' = BraTSGetVideoRet(self, video_idx, volume,
                                                       gt_listing, label)
    /\ UNCHANGED <<kind, args>>

BraTSArgs(listings) ==
    [img_folder : {"img"}, gt_folder : {"gt"}, file_list_txt : {NoFile},
     img_listing : listings]

\* ------------------------------------------------------------------------
\* TestDataset
\* ------------------------------------------------------------------------

TestVideoCount == 20
TestVideoFrames == 20

\* [torch.rand(20, 3, 512, 512) for num in range(20)]: imgs[k] is the k-th
\* random tensor, drawn once
TestInit ==
    [imgs |-> [k \in 1..TestVideoCount |-> [rand |-> k - 1, len |-> TestVideoFrames]]]

TestFrames(full_video) ==
    [i \in 1..full_video.len |->
        VOSFrame(i - 1, "null", [rand |-> full_video.rand, frame |-> i - 1])]

TestGetVideoRet(s, idx) ==
    Returned(idx, None,
             VOSVideo(Str(idx), idx, TestFrames(Index(s.imgs, idx))),
             [class |-> "TestSegmentLoader"])

TestGetVideo ==
    /\ kind = "Test"
    /\ ret.status = "none"
    /\ \E idx \in IdxChoices(Len(self.imgs)) :
          IF ~IndexOK(self.imgs, idx)
          THEN ret' = Raised(idx, None, "IndexError", 461)
          ELSE ret' = TestGetVideoRet(self, idx)
    /\ UNCHANGED <<kind, args, self>>

\* ------------------------------------------------------------------------
\* The caller
\* ------------------------------------------------------------------------

\* the caller takes the outcome of the call
TakeResult ==
    /\ ret.status # "none"
    /\ ret' = NoCall
    /\ UNCHANGED <<kind, args, self>>

Strides == 1..MaxStride
Truncates == -1..MaxTruncate

Init ==
    /\ ret = NoCall
    /\ \/ /\ kind = "PNG"
          /\ args \in PNGArgs(SUBSET {"a", "b"}, {}, {}, Strides, Truncates, BOOLEAN, BOOLEAN)
          /\ self = PNGInit(args)
       \/ /\ kind = "NPZ"
          /\ args \in NPZArgs(SUBSET {"x.npz", "y.npz", "d/x.npz", "n.txt"}, {}, {},
                              Strides, Truncates)
          /\ self = NPZInit(args)
       \/ /\ kind = "SA1B"
          /\ args \in SA1BArgs(UNION {Orders(S) : S \in SUBSET {"sa_1.jpg", "sa_22.jpg", "n_x.jpg", "m.txt"}},
                               {}, {}, 0..MaxImages)
          /\ self = SA1BInit(args)
       \/ /\ kind = "JSON"
          /\ args \in JSONArgs(SUBSET {"a", "b"}, {}, {}, Strides, BOOLEAN)
          /\ self = JSONInit(args)
       \/ /\ kind = "BraTS"
          /\ args \in BraTSArgs(SUBSET {"p1_img.npy", "p12_img.npy", "n.txt"})
          /\ self = BraTSInit(args)
       \/ /\ kind = "Test"
          /\ args = <<>>
          /\ self = TestInit

Next ==
    \/ PNGGetVideo
    \/ NPZGetVideo
    \/ SA1BGetVideo
    \/ JSONGetVideo
    \/ BraTSGetVideo
    \/ TestGetVideo
    \/ TakeResult

Spec == Init /\ [][Next]_vars

\* construction with subset and exclusion files; the tunables keep the
\* defaults of the constructors
InitIndex ==
    /\ ret = NoCall
    /\ \/ /\ kind = "PNG"
          /\ args \in PNGArgs(SUBSET {"a", "b", "c", "b.x"},
                              TextFiles({"a", "b.x", "c.txt\n"}),
                              TextFiles({"b", "b.x", "a\n", "c"}),
                              {1}, {-1}, {TRUE}, {FALSE})
          /\ self = PNGInit(args)
       \/ /\ kind = "NPZ"
          /\ args \in NPZArgs(SUBSET {"x.npz", "d/x.npz", "n.txt"},
                              TextFiles({"x", "x.npz", "d/x\n"}),
                              TextFiles({"x", "d/x.npz", "y"}),
                              {1}, {-1})
          /\ self = NPZInit(args)
       \/ /\ kind = "SA1B"
          /\ args \in SA1BArgs(UNION {Orders(S) : S \in SUBSET {"sa_1.jpg", "m.txt"}},
                               TextFiles({"sa_1.jpg", "sa_22"}),
                               TextFiles({"sa_1"}), {1})
          /\ self = SA1BInit(args)
       \/ /\ kind = "JSON"
          /\ args \in JSONArgs(SUBSET {"a", "b"}, TextFiles({"a", "b.x"}),
                               TextFiles({"a", "b"}), {1}, {TRUE})
          /\ self = JSONInit(args)
       \/ /\ kind = "BraTS"
          /\ args \in BraTSArgs(SUBSET {"p1_img.npy", "p12_img.npy", "n.txt"})
          /\ self = BraTSInit(args)
       \/ /\ kind = "Test"
          /\ args = <<>>
          /\ self = TestInit

SpecIndex == InitIndex /\ [][Next]_vars

\* ------------------------------------------------------------------------
\* Properties
\* ------------------------------------------------------------------------

Elems(s) == {s[i] : i \in 1..Len(s)}

\* no entry of s is lexically smaller than the entry before it
LexOrdered(s) == \A i \in 1..(Len(s) - 1) : ~StrLess(s[i + 1], s[i])

StrictlyIncreasing(s) == \A i \in 1..(Len(s) - 1) : s[i] < s[i + 1]

\* the number of names of S that are lexically smaller than x
LexRank(x, S) == Cardinality({y \in S : StrLess(y, x)})

\* the number of identifiers of the indexer: len(indexer)
Length == IF kind = "Test" THEN Len(self.imgs) ELSE Len(self.video_names)

Called == ret.status # "none"

FrameIdxs(video) == [j \in 1..Len(video.frames) |-> video.frames[j].frame_idx]

\* ---- C1 ----------------------------------------------------------------

\* the entries of a text file: its lines without the surrounding whitespace
Entries(file) == IF file = NoFile THEN {} ELSE {Strip(l) : l \in Elems(Lines(file))}

\* C1: for the PNG-sequence indexer, no entry of the exclusion file appears
\* in video_names, video_names is in lexical order, and video_names is
\* empty when every candidate (subset file line or image-root entry) is an
\* entry of the exclusion file.
C1_ExclusionApplied ==
    kind = "PNG" =>
        /\ Entries(args.excluded_videos_list_txt) \cap Elems(self.video_names) = {}
        /\ LexOrdered(self.video_names)
        /\ (Entries(args.file_list_txt) \cup args.img_listing)
              \subseteq Entries(args.excluded_videos_list_txt)
           => self.video_names = <<>>

\* ---- C2 ----------------------------------------------------------------

JpgFilesRead == {f \in ret.read : EndsWith(f, ".jpg")}

\* C2: PNG-sequence indexer, truncation unset (truncate_video <= 0): a
\* video directory holding n .jpg images gives ceil(n / sample_rate)
\* frames, numbered 0, 1, 2, ... in order, the j-th frame (from 0) being
\* the image with j * sample_rate images before it in lexical order.
C2_StrideDenseFrames ==
    (kind = "PNG" /\ ret.status = "ok" /\ self.truncate_video <= 0) =>
        LET n == Cardinality(JpgFilesRead)
            K == self.sample_rate
            frames == ret.video.frames
            M == Len(frames)
        IN  /\ (M - 1) * K < n /\ n <= M * K
            /\ \A j \in 1..M :
                  /\ frames[j].frame_idx = j - 1
                  /\ \E f \in JpgFilesRead :
                        /\ LexRank(f, JpgFilesRead) = (j - 1) * K
                        /\ EndsWith(frames[j].image_path, "/" \o f)

\* C2 witness: a stride of 2 over 3 images gave 2 frames
C2_Witness ==
    /\ kind = "PNG" /\ ret.status = "ok" /\ self.truncate_video <= 0
    /\ self.sample_rate = 2
    /\ Cardinality(JpgFilesRead) = 3
    /\ Len(ret.video.frames) = 2

\* ---- C3 ----------------------------------------------------------------

\* the source lines of the identifier lookups of the get_video methods
LookupLines == {129, 204, 280, 359, 419, 461}

IndexErrorAtLookup == ret.status = "IndexError" /\ ret.line \in LookupLines

\* C3 as stated: get_video(index) with any index outside 0..len-1, negative
\* indices included, ends in an out-of-range error and returns no video.
C3_OutsideRangeRaises ==
    (Called /\ ret.idx \notin 0..(Length - 1)) => IndexErrorAtLookup

\* C3 amended: get_video(index) with index >= len or index < -len ends in
\* an IndexError at the identifier lookup and returns no video; with
\* -len <= index < 0 the lookup succeeds and the call works on the
\* identifier at position len + index, which names the returned video.
C3_PythonIndexRange ==
    Called =>
        /\ (ret.idx >= Length \/ ret.idx < -Length) => IndexErrorAtLookup
        /\ (-Length <= ret.idx /\ ret.idx < Length) => ~IndexErrorAtLookup
        /\ (ret.idx < 0 /\ ret.status = "ok" /\ kind \in {"PNG", "NPZ", "JSON", "BraTS"}) =>
              ret.video.video_name = self.video_names[Length + ret.idx + 1]

\* C3 witness: the index len of a list of two identifiers raised
C3_Witness ==
    /\ kind = "NPZ" /\ Called
    /\ Length = 2 /\ ret.idx = Length /\ IndexErrorAtLookup

\* ---- C4 ----------------------------------------------------------------

\* the annotation record with index i (from 0) is there and has no missing entry
FullyAnnotated(frame_annots, i) ==
    /\ i + 1 \in 1..Len(frame_annots)
    /\ frame_annots[i + 1] # NoAnnot
    /\ \A k \in 1..Len(frame_annots[i + 1][1]) : frame_annots[i + 1][1][k] # None

\* C4: JSON-annotation indexer with rm_unannotated: every returned frame
\* has frame_idx = i * ann_every for an annotation index i whose record is
\* present and has no missing entry.
C4_OnlyAnnotatedFrames ==
    (kind = "JSON" /\ ret.status = "ok" /\ self.rm_unannotated) =>
        \A j \in 1..Len(ret.video.frames) :
            \E i \in 0..(Len(ret.read.frame_annots) - 1) :
                /\ ret.video.frames[j].frame_idx = i * self.ann_every
                /\ FullyAnnotated(ret.read.frame_annots, i)

\* C4 witness: a frame was kept while another frame of the stride was
\* dropped for an annotation with a missing entry
C4_Witness ==
    /\ kind = "JSON" /\ ret.status = "ok" /\ self.rm_unannotated
    /\ self.ann_every = 2 /\ self.sample_rate = 1
    /\ ret.read.files = {"0.jpg", "2.jpg"}
    /\ ret.read.frame_annots = <<Annot(<<"mask", None>>), Annot(<<"mask">>)>>
    /\ FrameIdxs(ret.video) = <<2>>

\* ---- C5 ----------------------------------------------------------------

\* the identifiers a text file lists: its lines, extension stripped
Stems(file) == IF file = NoFile THEN {} ELSE Elems(StemLines(Lines(file)))

\* C5: compressed-array indexer built with a subset file: video_names is,
\* in lexical order, exactly the identifiers that are an archive under the
\* folder and a line of the subset file with its extension stripped, minus
\* the exclusion entries.
C5_SubsetExtensionStripped ==
    (kind = "NPZ" /\ args.file_list_txt # NoFile) =>
        /\ LexOrdered(self.video_names)
        /\ Elems(self.video_names) =
              ({Splitext(f) : f \in {g \in args.walk : EndsWith(g, ".npz")}}
                  \cap Stems(args.file_list_txt))
              \ Stems(args.excluded_videos_list_txt)

\* ---- C6 ----------------------------------------------------------------

\* the identifier list the constructor built from its arguments
NamesBuilt ==
    CASE kind = "PNG" -> PNGInit(args).video_names
      [] kind = "NPZ" -> NPZInit(args).video_names
      [] kind = "SA1B" -> SA1BInit(args).video_names
      [] kind = "JSON" -> JSONInit(args).video_names
      [] kind = "BraTS" -> BraTSInit(args).video_names
      [] kind = "Test" -> TestInit.imgs

Names(s) == IF kind = "Test" THEN s.imgs ELSE s.video_names

\* the identifier that the index idx selects in list s
Selected(s, idx) == s[IF idx < 0 THEN Len(s) + idx + 1 ELSE idx + 1]

\* C6: no step changes the identifier list or a tunable, so len(indexer)
\* stays the length of the list built at construction; the one field a
\* get_video call writes is curr_vid of the medical-volume indexer, which
\* after get_video(i) holds the identifier that i selects (a call whose
\* lookup raised IndexError writes nothing).
C6_FrameEffect ==
    [][/\ Names(self') = NamesBuilt
       /\ kind # "BraTS" => self' = self
       /\ kind = "BraTS" =>
            /\ [self' EXCEPT !.curr_vid = self.curr_vid] = self
            /\ IF ret'.status # "none"
                  /\ ~(ret'.status = "IndexError" /\ ret'.line = 419)
               THEN self'.curr_vid = Selected(self.video_names, ret'.idx)
               ELSE self'.curr_vid = self.curr_vid]_vars

\* C6 witness: the medical-volume indexer, after a call for the second of
\* its two volumes that followed a call for the first
C6_Witness ==
    /\ kind = "BraTS" /\ Length = 2
    /\ ret.status = "ok" /\ ret.idx = 1
    /\ self.curr_vid = self.video_names[2]

\* ---- C7 ----------------------------------------------------------------

\* C7: medical-volume indexer: for i in 0..len-1, over a storage that holds
\* a label for the volume and no empty channel, get_video(i) does not
\* raise and returns 160 frames numbered 0..159, whatever the depth of the
\* volume.
C7_Always160Frames ==
    (/\ kind = "BraTS" /\ Called /\ ret.idx \in 0..(Length - 1)
     /\ ~(ret.read.volume.channels > 1 /\ ret.read.volume.blank)
     /\ BraTSLabels(self.video_names[ret.idx + 1], ret.read.gt_listing) # {}) =>
        /\ ret.status = "ok"
        /\ FrameIdxs(ret.video) = [j \in 1..160 |-> j - 1]

\* ---- C8 ----------------------------------------------------------------

\* C8: compressed-array indexer over an archive of N images and N masks:
\* with L = min(T, N) when truncate_video = T > 0 and L = N otherwise, the
\* call returns ceil(L / K) frames and hands as many masks to the segment
\* loader; the j-th frame (from 0) carries image j*K, has frame_idx j*K,
\* and the j-th mask is mask j*K.
C8_LockStep ==
    (/\ kind = "NPZ" /\ ret.status = "ok"
     /\ Len(ret.read.data.imgs) = Len(ret.read.data.gts)) =>
        LET N == Len(ret.read.data.imgs)
            T == self.truncate_video
            K == self.sample_rate
            L == IF T > 0 /\ T < N THEN T ELSE N
            frames == ret.video.frames
            masks == ret.segment_loader.masks
            M == Len(frames)
        IN  /\ Len(masks) = M
            /\ (M - 1) * K < L /\ L <= M * K
            /\ \A j \in 1..M :
                  /\ frames[j].frame_idx = (j - 1) * K
                  /\ frames[j].data.img = (j - 1) * K
                  /\ masks[j] = (j - 1) * K

\* C8 witness: 4 images and masks, truncated to 3, stride 2: frames 0 and 2
C8_Witness ==
    /\ kind = "NPZ" /\ ret.status = "ok"
    /\ Len(ret.read.data.imgs) = 4 /\ Len(ret.read.data.gts) = 4
    /\ self.truncate_video = 3 /\ self.sample_rate = 2
    /\ FrameIdxs(ret.video) = <<0, 2>>
    /\ ret.segment_loader.masks = <<0, 2>>

\* ---- C9 ----------------------------------------------------------------

\* the frame number a frame file is named after
FrameNumber(f) == ParseInt(Splitext(f))

\* C9 as stated: JSON-annotation indexer: whatever the digit count or zero
\* padding of the frame file names, the returned frames have strictly
\* increasing frame_idx, and (without rm_unannotated) the j-th frame (from
\* 0) is the one with j * sample_rate frame numbers below its own.
C9_NumericOrder ==
    (kind = "JSON" /\ ret.status = "ok") =>
        /\ StrictlyIncreasing(FrameIdxs(ret.video))
        /\ ~self.rm_unannotated =>
              \A j \in 1..Len(ret.video.frames) :
                  \E f \in ret.read.files :
                      /\ FrameNumber(f) = ret.video.frames[j].frame_idx
                      /\ Cardinality({g \in ret.read.files : FrameNumber(g) < FrameNumber(f)})
                            = (j - 1) * self.sample_rate

\* C9 amended: the frame files are ordered lexically by file name, as
\* strings, before the stride: without rm_unannotated there are
\* ceil(n / sample_rate) frames and the j-th frame (from 0) is the file with
\* j * sample_rate file names lexically below its own, its frame_idx being
\* the number in its name; with rm_unannotated the frames are among those.
\* The frame_idx are strictly increasing when all file names have stems of
\* the same length.
C9_LexicalOrder ==
    (kind = "JSON" /\ ret.status = "ok") =>
        LET files == ret.read.files
            K == self.sample_rate
            frames == ret.video.frames
            M == Len(frames)
        IN  /\ ~self.rm_unannotated =>
                  /\ (M - 1) * K < Cardinality(files) /\ Cardinality(files) <= M * K
                  /\ \A j \in 1..M :
                        \E f \in files :
                            /\ LexRank(f, files) = (j - 1) * K
                            /\ frames[j].frame_idx = FrameNumber(f)
            /\ \A j \in 1..M :
                  \E f \in files :
                      /\ LexRank(f, files) % K = 0
                      /\ frames[j].frame_idx = FrameNumber(f)
            /\ (\A f, g \in files : Len(Splitext(f)) = Len(Splitext(g)))
                  => StrictlyIncreasing(FrameIdxs(ret.video))

\* C9 witness: the files 0, 2, 04 and 10 with stride 2 gave the frames 0
\* and 10, the first and the third in lexical order
C9_Witness ==
    /\ kind = "JSON" /\ ret.status = "ok" /\ ~self.rm_unannotated
    /\ self.sample_rate = 2
    /\ ret.read.files = {"0.jpg", "2.jpg", "04.jpg", "10.jpg"}
    /\ FrameIdxs(ret.video) = <<0, 10>>

\* ---- C10 ---------------------------------------------------------------

\* C10: for the PNG-sequence, compressed-array, JSON-annotation,
\* medical-volume and synthetic-test indexers, get_video(i) with i in
\* 0..len-1 returns a video whose video_id is i and whose video_name is
\* the i-th identifier (str(i) for the synthetic-test indexer, which keeps
\* no identifier list), however many frames the video has.
C10_VideoIdIsIndex ==
    (/\ kind \in {"PNG", "NPZ", "JSON", "BraTS", "Test"}
     /\ ret.status = "ok" /\ ret.idx \in 0..(Length - 1)) =>
        /\ ret.video.video_id = ret.idx
        /\ ret.video.video_name =
              IF kind = "Test" THEN Str(ret.idx) ELSE self.video_names[ret.idx + 1]

====
